---- MODULE Spec2Model ----
(***************************************************************************)
(* Model of the screenshot service's capture engine:                       *)
(*   BannerHandler          (handleBanners, handleBannerPattern,           *)
(*                           handleCustomBanners, injectBannerBlockingCSS) *)
(*   VideoThumbnailDetector (detectVideoThumbnail, detectVideoRegionAndCrop)*)
(*   BrowserManager         (takeIntelligentScreenshot)                    *)
(* Time is counted in units of 100 ms.                                     *)
(***************************************************************************)
EXTENDS Integers, Sequences, FiniteSets, TLC

VARIABLES
    now,            \* wall clock (Date.now()), in units of 100 ms
    els,            \* page: per catalog selector, the elements it matches
    sticky,         \* page: a clicked element stays on the page
    opCost,         \* page: time one probe of the page takes
    connAlive,      \* the page/browser connection is alive
    timeout,        \* handleBanners: the timeout argument
    bpc,            \* handleBanners: position in the code
    startTime,      \* handleBanners: const startTime
    maxTime,        \* handleBanners: const maxTime
    attempts,       \* handleBanners: let attempts
    bannersHandled, \* handleBanners: let bannersHandled
    foundBanner,    \* handleBanners: let foundBanner
    pi,             \* handleBanners: index of `pattern` in the catalog
    si,             \* handleBannerPattern: index of `selector` in the pattern
    raised,         \* the step just taken threw inside handleBannerPattern
    appliedInPass,  \* history: successful actions in the current pass
    applied,        \* history: per pattern, successful actions in this call
    lastAppEnd,     \* history: time the latest pattern application ended, its waitAfter included
    leftAt,         \* history: time the while loop was left (-1: not yet)
    pc,             \* takeIntelligentScreenshot: position in the code
    opts,           \* takeIntelligentScreenshot: the options argument
    pageOpen,       \* takeIntelligentScreenshot: `page` is an open page
    fatal,          \* the connection was lost or the navigation failed
    result,         \* takeIntelligentScreenshot: what the call produced
    ci,             \* handleCustomBanners: index of `selector`
    customClicks,   \* history: clicks handleCustomBanners issued, per selector
    styleTags,      \* page: style tags added by injectBannerBlockingCSS
    video,          \* page: the video content the detector finds
    dpc,            \* detectVideoThumbnail: position in the code
    k,              \* detectVideoThumbnail: the strategy to run next
    candidates,     \* detectVideoThumbnail: const candidates
    validCandidates,\* validateAndScoreCandidates: const validCandidates
    vi,             \* validateAndScoreCandidates: index of `candidate`
    det,            \* the VideoDetectionResult returned
    phaseLog,       \* history: the phases of the capture, in the order entered
    failed,         \* history: the kinds of step that threw in this capture
    els0,           \* history: the page as it was when the capture started
    captureLog,     \* history: the fetch, crop and plain captures attempted, in order
    customSeen,     \* history: what handleCustomBanners met at each selector so far
    scroll,         \* page: whether the body scrolls ("auto") or a modal has locked it
    env,            \* server: process.env (API_KEY, REQUIRE_API_KEY)
    reqs,           \* server: the requests, and warmUp, each with its position in the code
    browser,        \* BrowserManager: this.browser (0: null, else the instance)
    isInitializing, \* BrowserManager: this.isInitializing
    launches,       \* history: the calls of puppeteer.launch so far
    connected,      \* the browser instances that are launched and connected
    vbox,           \* page: the boxes of the video elements, in document order
    cbox,           \* page: the boxes of the video/player containers, in document order
    cpc,            \* detectVideoRegionAndCrop: position in the code
    region,         \* detectVideoRegionAndCrop: const videoRegion
    cropShots,      \* history: the clipped captures issued
    cropOut         \* detectVideoRegionAndCrop: what the call produced

bannerVars == <<timeout, bpc, startTime, maxTime, attempts, bannersHandled,
                foundBanner, pi, si, raised, appliedInPass, applied,
                lastAppEnd, leftAt>>
pageVars == <<els, sticky, opCost, connAlive>>
customVars == <<ci, customClicks, customSeen>>
detVars == <<video, dpc, k, candidates, validCandidates, vi, det>>
orchVars == <<pc, opts, pageOpen, fatal, result, styleTags, phaseLog, failed, els0,
              captureLog>>
serverVars == <<env, reqs, browser, isInitializing, launches, connected>>
captureVars == <<now, pageVars, bannerVars, customVars, detVars, orchVars, scroll>>
cropVars == <<vbox, cbox, cpc, region, cropShots, cropOut>>
vars == <<captureVars, serverVars, cropVars>>

---------------------------------------------------------------------------
(* Bounds of the model *)

\* slowest page: units of time one probe of the page may take
MaxOpCost == 1
\* longest customBannerSelectors list
MaxCustom == 2
\* most candidates the extraction strategies of one page yield together
MaxCandidates == 2

---------------------------------------------------------------------------
(* BannerHandler: constants *)

\* setTimeout(resolve, 800): initial wait for dynamic content
InitialSettle == 8
\* setTimeout(resolve, 200): wait for animations before the click
ClickSettle == 2
\* setTimeout(resolve, 500): small delay between attempts
BetweenAttempts == 5
\* setTimeout(resolve, 500): final wait
FinalSettle == 5
\* const maxAttempts = 5
maxAttempts == 5

\* COMMON_BANNER_PATTERNS, in source order; nsel is selectors.length,
\* waitAfter is in units of 100 ms, and kind is the family the entry's name
\* and the comment above it put it in.
COMMON_BANNER_PATTERNS ==
    << [name |-> "Adult Site Age Verification", kind |-> "age",     nsel |-> 17, action |-> "click", waitAfter |-> 30],
       [name |-> "Cookie Accept All",           kind |-> "cookie",  nsel |-> 17, action |-> "click", waitAfter |-> 10],
       [name |-> "German Cookie Accept",        kind |-> "cookie",  nsel |-> 12, action |-> "click", waitAfter |-> 10],
       [name |-> "Cookie OK/Agree",             kind |-> "cookie",  nsel |-> 12, action |-> "click", waitAfter |-> 10],
       [name |-> "Age Verification - 18+",      kind |-> "age",     nsel |-> 26, action |-> "click", waitAfter |-> 20],
       [name |-> "YouTube Cookie Accept",       kind |-> "cookie",  nsel |-> 13, action |-> "click", waitAfter |-> 15],
       [name |-> "Modal Close",                 kind |-> "generic", nsel |-> 10, action |-> "click", waitAfter |-> 5],
       [name |-> "GDPR Accept",                 kind |-> "generic", nsel |-> 9,  action |-> "click", waitAfter |-> 10],
       [name |-> "Newsletter Close",            kind |-> "generic", nsel |-> 14, action |-> "click", waitAfter |-> 5] >>

NPatterns == Len(COMMON_BANNER_PATTERNS)

\* bannerTimeout = 5000, the default of takeIntelligentScreenshot
DefaultBannerTimeout == 50
\* bannerTimeout as the route validates it (1000..30000 ms), sampled
\* handleBanners' own default timeout, 10000 ms
HandlerDefaultTimeout == 100
Timeouts == {10, HandlerDefaultTimeout}

---------------------------------------------------------------------------
(* The page, as the banner code sees it *)

\* The selectors (pattern index, selector index) for which the page may hold
\* elements; every other selector of the catalog resolves to nothing.
Slots == { <<1, 1>>, <<1, 15>>, <<2, 3>>, <<9, 14>> }

\* What a selector resolves to, in document order:
\*   "none"   no element;      "vis"  one visible element;
\*   "hid"    one hidden element;
\*   "hidvis" a hidden element followed by a visible one.
ElStates == {"none", "vis", "hid", "hidvis"}

\* the pages that are enumerated: what each slot may hold
SlotStates(slot) ==
    CASE slot = <<1, 1>>  -> {"none", "vis", "hid", "hidvis"}
      [] slot = <<1, 15>> -> {"none", "vis"}
      [] slot = <<2, 3>>  -> {"none", "vis", "hid"}
      [] slot = <<9, 14>> -> {"none", "vis"}

BannerPages == { f \in [Slots -> ElStates] : \A slot \in Slots : f[slot] \in SlotStates(slot) }

\* page.$(selector) / the :contains() scan: the first match in document order
FirstMatch(p, s) ==
    IF <<p, s>> \in Slots
    THEN CASE els[<<p, s>>] = "none"   -> "absent"
           [] els[<<p, s>>] = "vis"    -> "visible"
           [] els[<<p, s>>] = "hid"    -> "hidden"
           [] els[<<p, s>>] = "hidvis" -> "hidden"
    ELSE "absent"

\* the isVisible evaluate of handleBannerPattern, on the resolved element
IsVisible(p, s) == FirstMatch(p, s) = "visible"

\* the page after element.click() (or el.remove()) on the first match of <<p, s>>
AfterAction(p, s, action) ==
    IF action = "click" /\ sticky
    THEN els
    ELSE [els EXCEPT ![<<p, s>>] = "none"]

\* outcomes of one operation on the page: it throws when the connection is
\* lost, and may throw while it is alive
Throws == IF connAlive THEN BOOLEAN ELSE {TRUE}

---------------------------------------------------------------------------
(* BannerHandler.handleBanners / handleBannerPattern *)

Pattern == COMMON_BANNER_PATTERNS[pi]

\* while (Date.now() < maxTime && attempts < maxAttempts)
LoopConditionNoCap == now < maxTime
LoopConditionNoDeadline == attempts < maxAttempts
LoopCondition == now < maxTime /\ attempts < maxAttempts

\* `break; // Handle one banner at a time` after a handled pattern
NoBreakAfterHandled == FALSE
BreakAfterHandled == TRUE

\* try { ... } catch (error) { continue; } around each selector of a pattern
NoSelectorCatch == FALSE
SelectorCatch == TRUE

\* the call: startTime = Date.now(); maxTime = startTime + timeout
HB_Call ==
    /\ pc = "handleBanners" /\ bpc = "idle"
    /\ startTime' = now
    /\ maxTime' = now + timeout
    /\ bpc' = "initWait"
    /\ phaseLog' = Append(phaseLog, "banners")
    /\ UNCHANGED <<now, pageVars, timeout, attempts, bannersHandled, foundBanner,
                   pi, si, raised, appliedInPass, applied, lastAppEnd, leftAt,
                   customVars, detVars, pc, opts, pageOpen, fatal, result,
                   styleTags, failed, els0,
                   captureLog>>
    /\ UNCHANGED <<scroll, serverVars, cropVars>>

\* await setTimeout(800); bannersHandled = 0; attempts = 0
HB_InitialSettle ==
    /\ bpc = "initWait"
    /\ now' = now + InitialSettle
    /\ bannersHandled' = 0
    /\ attempts' = 0
    /\ bpc' = "loopCheck"
    /\ UNCHANGED <<pageVars, timeout, startTime, maxTime, foundBanner, pi, si,
                   raised, appliedInPass, applied, lastAppEnd, leftAt, customVars, detVars, orchVars>>
    /\ UNCHANGED <<scroll, serverVars, cropVars>>

\* the while condition; a pass starts with attempts++, foundBanner = false
\* and the for loop at the first pattern
HB_LoopCheck ==
    /\ bpc = "loopCheck"
    /\ IF LoopCondition
       THEN /\ attempts' = attempts + 1
            /\ foundBanner' = FALSE
            /\ pi' = 1
            /\ appliedInPass' = 0
            /\ bpc' = "forCheck"
            /\ UNCHANGED leftAt
       ELSE /\ bpc' = "afterLoop"
            /\ leftAt' = now
            /\ UNCHANGED <<attempts, foundBanner, pi, appliedInPass>>
    /\ raised' = FALSE
    /\ UNCHANGED <<now, pageVars, timeout, startTime, maxTime, bannersHandled, si,
                   applied, lastAppEnd, customVars, detVars, orchVars>>
    /\ UNCHANGED <<scroll, serverVars, cropVars>>

\* for (const pattern of COMMON_BANNER_PATTERNS) { if (Date.now() >= maxTime) break;
HB_ForCheck ==
    /\ bpc = "forCheck"
    /\ IF pi > NPatterns \/ now >= maxTime
       THEN bpc' = "afterPass" /\ UNCHANGED si
       ELSE bpc' = "probe" /\ si' = 1
    /\ raised' = FALSE
    /\ UNCHANGED <<now, pageVars, timeout, startTime, maxTime, attempts,
                   bannersHandled, foundBanner, pi, appliedInPass, applied,
                   lastAppEnd, leftAt, customVars, detVars, orchVars>>
    /\ UNCHANGED <<scroll, serverVars, cropVars>>

\* where an exception thrown while a selector is handled lands: the selector's
\* catch (continue with the next selector), else the catch around the
\* handleBannerPattern call in handleBanners (continue with the next pattern)
OnSelectorError ==
    IF SelectorCatch
    THEN /\ si' = si + 1
         /\ bpc' = "probe"
         /\ UNCHANGED <<pi, lastAppEnd>>
    ELSE /\ pi' = pi + 1
         /\ bpc' = "forCheck"
         /\ lastAppEnd' = now'
         /\ UNCHANGED si

\* handleBannerPattern, one selector: resolve it (page.$ or the :contains()
\* scan), `if (!element) continue`, the visibility check, `if (!isVisible) continue`
HBP_Probe ==
    /\ bpc = "probe" /\ si <= Pattern.nsel
    /\ now' = now + opCost
    /\ \E exc \in Throws :
          /\ raised' = exc
          /\ IF exc
             THEN OnSelectorError /\ failed' = failed \cup {"banner"}
             ELSE /\ IF IsVisible(pi, si)
                     THEN bpc' = "act" /\ UNCHANGED si
                     ELSE bpc' = "probe" /\ si' = si + 1
                  /\ UNCHANGED <<pi, lastAppEnd, failed>>
    /\ UNCHANGED <<pageVars, timeout, startTime, maxTime, attempts, bannersHandled,
                   foundBanner, appliedInPass, applied, leftAt, customVars, detVars,
                   pc, opts, pageOpen, fatal, result, styleTags, phaseLog, els0,
                   captureLog>>
    /\ UNCHANGED <<scroll, serverVars, cropVars>>

\* handleBannerPattern: every selector exhausted, return false; the for loop
\* of handleBanners goes on with the next pattern
HBP_Exhausted ==
    /\ bpc = "probe" /\ si > Pattern.nsel
    /\ pi' = pi + 1
    /\ bpc' = "forCheck"
    /\ lastAppEnd' = now
    /\ raised' = FALSE
    /\ UNCHANGED <<now, pageVars, timeout, startTime, maxTime, attempts,
                   bannersHandled, foundBanner, si, appliedInPass, applied,
                   leftAt, customVars, detVars, orchVars>>
    /\ UNCHANGED <<scroll, serverVars, cropVars>>

\* handleBannerPattern: the action on a visible element.  click: scrollIntoView,
\* 200 ms, element.click(); remove: el.remove().  On success it returns true.
HBP_Act ==
    /\ bpc = "act"
    /\ now' = IF Pattern.action = "click"
              THEN now + opCost + ClickSettle + opCost
              ELSE now + opCost
    /\ \E exc \in Throws :
          /\ raised' = exc
          /\ IF exc
             THEN /\ OnSelectorError
                  /\ failed' = failed \cup {"banner"}
                  /\ UNCHANGED <<els, appliedInPass, applied>>
             ELSE /\ els' = AfterAction(pi, si, Pattern.action)
                  /\ bpc' = "handled"
                  /\ lastAppEnd' = now'
                  /\ appliedInPass' = appliedInPass + 1
                  /\ applied' = [applied EXCEPT ![pi] = @ + 1]
                  /\ UNCHANGED <<pi, si, failed>>
    /\ UNCHANGED <<sticky, opCost, connAlive, timeout, startTime, maxTime,
                   attempts, bannersHandled, foundBanner, leftAt, customVars, detVars,
                   pc, opts, pageOpen, fatal, result, styleTags, phaseLog, els0,
                   captureLog>>
    /\ UNCHANGED <<scroll, serverVars, cropVars>>

\* if (handled) { bannersHandled++; foundBanner = true;
\*   if (pattern.waitAfter) await setTimeout(pattern.waitAfter); break; }
HB_Handled ==
    /\ bpc = "handled"
    /\ bannersHandled' = bannersHandled + 1
    /\ foundBanner' = TRUE
    /\ now' = IF Pattern.waitAfter # 0 THEN now + Pattern.waitAfter ELSE now
    /\ IF BreakAfterHandled
       THEN bpc' = "afterPass" /\ UNCHANGED pi
       ELSE bpc' = "forCheck" /\ pi' = pi + 1
    /\ raised' = FALSE
    /\ lastAppEnd' = now'
    /\ UNCHANGED <<pageVars, timeout, startTime, maxTime, attempts, si,
                   appliedInPass, applied, leftAt, customVars, detVars, orchVars>>
    /\ UNCHANGED <<scroll, serverVars, cropVars>>

\* `if (!foundBanner) break;` ends the loop after a pass that handled nothing
NoBreakWhenNoneFound == FALSE
BreakWhenNoneFound == TRUE

\* if (!foundBanner) break; await setTimeout(500);
HB_AfterPass ==
    /\ bpc = "afterPass"
    /\ IF ~foundBanner /\ BreakWhenNoneFound
       THEN bpc' = "afterLoop" /\ leftAt' = now /\ UNCHANGED now
       ELSE bpc' = "loopCheck" /\ now' = now + BetweenAttempts /\ UNCHANGED leftAt
    /\ raised' = FALSE
    /\ UNCHANGED <<pageVars, timeout, startTime, maxTime, attempts, bannersHandled,
                   foundBanner, pi, si, appliedInPass, applied, lastAppEnd, customVars, detVars, orchVars>>
    /\ UNCHANGED <<scroll, serverVars, cropVars>>

\* the locals of a call of handleBanners before it starts and after it returned
NoCall ==
    /\ startTime' = 0 /\ maxTime' = 0
    /\ attempts' = 0 /\ bannersHandled' = 0 /\ foundBanner' = FALSE
    /\ pi' = 1 /\ si' = 1
    /\ raised' = FALSE
    /\ appliedInPass' = 0
    /\ applied' = [p \in 1..NPatterns |-> 0]
    /\ lastAppEnd' = 0
    /\ leftAt' = -1

\* the wait between the loop and the return: one setTimeout(500)
TwoFinalWaits == FinalSettle + FinalSettle
FinalWait == FinalSettle

\* totalTime and the log lines, then the final await setTimeout(500), return
HB_FinalSettle ==
    /\ bpc = "afterLoop"
    /\ now' = now + FinalWait
    /\ bpc' = "returned"
    /\ NoCall
    /\ UNCHANGED <<pageVars, timeout, customVars, detVars, orchVars>>
    /\ UNCHANGED <<scroll, serverVars, cropVars>>

\* the page/browser connection is lost while the capture runs
ConnLost ==
    /\ connAlive
    /\ pc \notin {"idle", "finally", "done"}
    /\ bpc # "returned" \/ pc # "handleBanners"
    /\ connAlive' = FALSE
    /\ fatal' = TRUE
    /\ UNCHANGED <<now, els, sticky, opCost, bannerVars, customVars, detVars,
                   pc, opts, pageOpen, result, styleTags, phaseLog, failed, els0,
                   captureLog>>
    /\ UNCHANGED <<scroll, serverVars, cropVars>>

---------------------------------------------------------------------------
(* BannerHandler.handleCustomBanners / injectBannerBlockingCSS *)

\* the catalog selectors whose elements sit in a container that the injected
\* style sheet hides ([class*="cookie-banner"] and the like)
Blockable == { <<2, 3>> }

\* the page after the style tag is added: a hidden container gives its
\* elements an empty bounding box, so the visibility check fails on them
AfterStyleTagToggled ==
    [slot \in Slots |->
        IF slot \in Blockable
        THEN CASE els[slot] = "vis" -> "hid"
               [] els[slot] = "hid" -> "vis"
               [] OTHER             -> els[slot]
        ELSE els[slot]]
AfterStyleTag ==
    [slot \in Slots |->
        IF slot \in Blockable /\ els[slot] = "vis" THEN "hid" ELSE els[slot]]

\* the body of injectBannerBlockingCSS: page.addStyleTag in a try/catch that
\* only warns; the sheet hides the banner containers and sets
\* body { overflow: auto !important }
IBC_AddStyleTag ==
    \E exc \in Throws :
        IF exc
        THEN UNCHANGED <<els, styleTags, scroll>>
        ELSE /\ els' = AfterStyleTag
             /\ scroll' = "auto"
             /\ styleTags' = styleTags + 1

\* most calls of injectBannerBlockingCSS on one page
MaxInjections == 2

\* a call of the public injectBannerBlockingCSS on a page, by any caller
IBC_Call ==
    /\ pc = "injectOnly"
    /\ styleTags < MaxInjections
    /\ IBC_AddStyleTag
    /\ UNCHANGED <<now, sticky, opCost, connAlive, bannerVars, customVars, detVars,
                   pc, opts, pageOpen, fatal, result, phaseLog, failed, els0,
                   captureLog>>
    /\ UNCHANGED <<serverVars, cropVars>>

\* injectBannerBlockingCSS as the orchestrator calls it
IBC_Inject ==
    /\ pc = "inject"
    /\ IBC_AddStyleTag
    /\ pc' = "handleBanners"
    /\ phaseLog' = Append(phaseLog, "inject")
    /\ UNCHANGED <<now, sticky, opCost, connAlive, bannerVars, customVars, detVars,
                   opts, pageOpen, fatal, result, failed, els0,
                   captureLog>>
    /\ UNCHANGED <<serverVars, cropVars>>

\* handleCustomBanners, one selector: page.$, the visibility check, click and
\* a 1000 ms wait; any error is caught and logged, the loop goes on
CustomSettle == 10

\* try { ... } catch (error) { console.warn(...) } around each selector; without
\* it the exception would leave handleCustomBanners for the catch around the
\* banner block of the orchestrator
NoCustomCatch == FALSE
CustomCatch == TRUE

\* `if (element) { isVisible = ...; if (isVisible) element.click() }` on what
\* page.$ returned for the custom selector
CustomIsPresent(seen) == seen \in {"vis", "hid"}
CustomIsVisible(seen) == seen = "vis"

HCB_Step ==
    /\ pc = "custom" /\ ci <= Len(opts.customBannerSelectors)
    /\ \E exc \in Throws, el \in {"none", "vis", "hid"} :
          LET seen == IF exc THEN "error" ELSE el
          IN  /\ customSeen' = Append(customSeen, seen)
              /\ IF CustomIsVisible(seen)
                 THEN /\ customClicks' = [customClicks EXCEPT ![ci] = @ + 1]
                      /\ now' = now + CustomSettle
                 ELSE UNCHANGED <<customClicks, now>>
              /\ IF exc /\ ~CustomCatch
                 THEN pc' = "detectGate" /\ UNCHANGED ci
                 ELSE ci' = ci + 1 /\ UNCHANGED pc
    /\ UNCHANGED <<pageVars, bannerVars, detVars, opts, pageOpen, fatal, result,
                   styleTags, phaseLog, failed, els0, captureLog>>
    /\ UNCHANGED <<scroll, serverVars, cropVars>>

\* the for loop is through: handleCustomBanners returns
HCB_Return ==
    /\ pc = "custom" /\ ci > Len(opts.customBannerSelectors)
    /\ pc' = "detectGate"
    /\ customSeen' = <<>>
    /\ UNCHANGED <<now, pageVars, bannerVars, ci, customClicks, detVars,
                   opts, pageOpen, fatal, result, styleTags, phaseLog, failed, els0,
                   captureLog>>
    /\ UNCHANGED <<scroll, serverVars, cropVars>>

---------------------------------------------------------------------------
(* VideoThumbnailDetector: candidates, validation, scoring, selection *)

\* Confidence is an IEEE double in the code.  Here it is counted in
\* ten-thousandths, and a double that the additions leave just below or just
\* above a decimal is that decimal minus or plus one: 7999 is
\* 0.7999999999999999, 8501 is 0.8500000000000001.  A candidate carries the
\* confidence its extractor assigned (base), the width and height its
\* extractor supplied (0: not supplied) and, as natW/natH, the natural size of
\* the image behind its URL (0x0: the image does not load).  Of its URL it
\* carries whether it holds one of the rejected words (urlRejected), one of
\* 'maxresdefault', 'vimeocdn.com', 'dailymotion.com' (urlCdn), or
\* 'thumbnail_url' (urlParam).
MIN_THUMBNAIL_WIDTH == 200
MIN_THUMBNAIL_HEIGHT == 150
\* PREFERRED_ASPECT_RATIOS = [16/9, 4/3, 3/2, 1.85, 2.35], as fractions
PREFERRED_ASPECT_RATIOS == << <<16, 9>>, <<4, 3>>, <<3, 2>>, <<37, 20>>, <<47, 20>> >>

Cand(src, conf, meth, w, h, nw, nh, rej, cdn) ==
    [source |-> src, confidence |-> conf, base |-> conf, method |-> meth,
     width |-> w, height |-> h, natW |-> nw, natH |-> nh,
     urlRejected |-> rej, urlCdn |-> cdn, urlParam |-> FALSE]

\* the kinds of video content of the pages that are enumerated
VideoKinds == {"none", "element", "elementZero", "container", "containerSmall", "iframe"}

\* What each extraction strategy can return on a page with video content v
\* (besides nothing): 1 metadata, 2 video elements, 3 DOM traversal,
\* 4 CSS backgrounds, 5 iframes, 6 oEmbed.
StrategyYields(n, v) ==
    CASE n = 1 -> { <<Cand("og:image", 8000, "metadata", 0, 0, 1280, 720, FALSE, FALSE)>>,
                    <<Cand("og:image", 8000, "metadata", 0, 0, 100, 80, FALSE, FALSE)>> }
      [] n = 2 -> IF v \in {"element", "elementZero"}
                  THEN { <<Cand("video poster", 9000, "video-element", 0, 0, 100, 80, FALSE, FALSE)>>,
                         <<Cand("video data-thumb", 8000, "video-element", 0, 0, 640, 480, FALSE, FALSE)>> }
                  ELSE {}
      [] n = 3 -> IF v \in {"element", "elementZero", "container", "containerSmall"}
                  THEN { <<Cand("container image", 6000, "dom-traversal", 0, 0, 640, 480, FALSE, FALSE)>>,
                         <<Cand("sibling image", 5000, "dom-traversal", 0, 0, 400, 300, FALSE, TRUE)>> }
                  ELSE {}
      [] n = 4 -> IF v \in {"container", "containerSmall"}
                  THEN { <<Cand("CSS background", 7000, "css-background", 0, 0, 0, 0, FALSE, FALSE)>> }
                  ELSE {}
      [] n = 5 -> IF v = "iframe"
                  THEN { <<Cand("iframe data attribute", 6000, "iframe", 0, 0, 300, 700, TRUE, FALSE)>> }
                  ELSE {}
      [] n = 6 -> { <<Cand("oEmbed", 8000, "oembed", 480, 360, 480, 360, FALSE, FALSE)>> }

\* Every candidate the strategies can return on the pages that are
\* enumerated for validation, scoring and selection, by strategy.
StrategyPool(n, v) ==
    CASE n = 1 -> { Cand("og:image", 8000, "metadata", 0, 0, 1280, 720, FALSE, FALSE),
                    Cand("og:image", 8000, "metadata", 0, 0, 100, 80, FALSE, FALSE),
                    Cand("og:image", 8000, "metadata", 0, 0, 0, 0, FALSE, FALSE),
                    Cand("twitter:image", 7000, "metadata", 0, 0, 400, 225, FALSE, FALSE),
                    Cand("schema.org VideoObject", 9000, "metadata", 0, 0, 640, 360, FALSE, FALSE) }
      [] n = 2 -> IF v \in {"element", "elementZero"}
                  THEN { Cand("video poster", 9000, "video-element", 0, 0, 100, 80, FALSE, FALSE),
                         Cand("video poster", 9000, "video-element", 0, 0, 1280, 720, FALSE, FALSE),
                         Cand("video data-thumb", 8000, "video-element", 0, 0, 640, 480, FALSE, FALSE) }
                  ELSE {}
      [] n = 3 -> IF v \in {"element", "elementZero", "container", "containerSmall"}
                  THEN { Cand("container image", 6000, "dom-traversal", 0, 0, 640, 480, FALSE, FALSE),
                         Cand("container image", 6000, "dom-traversal", 0, 0, 1280, 720, FALSE, FALSE),
                         [Cand("container image", 6000, "dom-traversal", 0, 0, 640, 480, FALSE, FALSE)
                             EXCEPT !.urlParam = TRUE],
                         Cand("sibling image", 5000, "dom-traversal", 0, 0, 400, 300, FALSE, TRUE) }
                  ELSE {}
      [] n = 4 -> IF v \in {"container", "containerSmall"}
                  THEN { Cand("CSS background", 7000, "css-background", 0, 0, 0, 0, FALSE, FALSE),
                         Cand("CSS background", 7000, "css-background", 0, 0, 400, 225, FALSE, FALSE) }
                  ELSE {}
      [] n = 5 -> IF v = "iframe"
                  THEN { Cand("iframe data attribute", 6000, "iframe", 0, 0, 300, 700, FALSE, FALSE),
                         Cand("iframe data attribute", 6000, "iframe", 0, 0, 640, 360, TRUE, FALSE) }
                  ELSE {}
      [] n = 6 -> { Cand("oEmbed", 8000, "oembed", 480, 360, 480, 360, FALSE, FALSE),
                    Cand("oEmbed", 8000, "oembed", 100, 80, 100, 80, FALSE, FALSE) }

\* the strategy a candidate comes from, by its method
ExtractionOrder(c) ==
    CASE c.method = "metadata"       -> 1
      [] c.method = "video-element"  -> 2
      [] c.method = "dom-traversal"  -> 3
      [] c.method = "css-background" -> 4
      [] c.method = "iframe"         -> 5
      [] c.method = "oembed"         -> 6

\* the candidate lists the six strategies can leave behind on a page with
\* video content v: candidates.push(...) strategy after strategy
CandidateLists(v) ==
    LET pool == UNION { StrategyPool(n, v) : n \in 1..6 }
    IN  UNION { { l \in [1..len -> pool] :
                    \A i, j \in 1..len : i < j => ExtractionOrder(l[i]) <= ExtractionOrder(l[j]) }
                : len \in 0..MaxCandidates }

\* `if (!candidate.width || !candidate.height)` measure the image; else keep
Measured(c) ==
    IF c.width = 0 \/ c.height = 0
    THEN [c EXCEPT !.width = c.natW, !.height = c.natH]
    ELSE c

\* candidate.aspectRatio is set only when width and height are both truthy
HasAspect(c) == c.width # 0 /\ c.height # 0

Abs(x) == IF x < 0 THEN -x ELSE x

\* |width/height - num/den| <= tenths/10, in integers
AspectWithin(c, ratio, tenths) ==
    10 * Abs(c.width * ratio[2] - ratio[1] * c.height) <= tenths * c.height * ratio[2]

NearPreferred(c, tenths) ==
    \E r \in 1..Len(PREFERRED_ASPECT_RATIOS) :
        AspectWithin(c, PREFERRED_ASPECT_RATIOS[r], tenths)

\* MAX_ASPECT_RATIO_DEVIATION = 0.3, in tenths
MAX_ASPECT_RATIO_DEVIATION == 3

isValidThumbnailNoMinimum(c) ==
    /\ ~c.urlRejected
    /\ HasAspect(c) =>
          ~(~NearPreferred(c, MAX_ASPECT_RATIO_DEVIATION) /\ 2 * c.width < c.height)
isValidThumbnail(c) ==
    /\ ~(c.width # 0 /\ c.width < MIN_THUMBNAIL_WIDTH)
    /\ ~(c.height # 0 /\ c.height < MIN_THUMBNAIL_HEIGHT)
    /\ ~c.urlRejected
    /\ HasAspect(c) =>
          ~(~NearPreferred(c, MAX_ASPECT_RATIO_DEVIATION) /\ 2 * c.width < c.height)

SourceBoost(c) == c.source \in {"video poster", "video data-thumb"}

\* confidence += inc in IEEE double arithmetic, for the confidences that
\* occur (bases 0.5 .. 0.9, increments 0.05 and 0.1): the sums that are not
\* the double nearest to the decimal sum
FloatAdd(x, inc) ==
    CASE x = 7000 /\ inc = 1000 -> 7999
      [] x = 7999 /\ inc = 1000 -> 8999
      [] x = 7999 /\ inc = 500  -> 8500
      [] x = 8000 /\ inc = 500  -> 8501
      [] x = 8501 /\ inc = 1000 -> 9501
      [] x = 9000 /\ inc = 500  -> 9501
      [] x = 8999 /\ inc = 1000 -> 9999
      [] x = 8999 /\ inc = 500  -> 9500
      [] x = 9501 /\ inc = 1000 -> 10500
      [] OTHER -> x + inc

\* the boosts of calculateFinalConfidence without the final Math.min
calculateFinalConfidenceUncapped(c) ==
    LET area == c.width * c.height
        afterArea == IF c.width # 0 /\ c.height # 0
                     THEN (IF area > 500000 THEN FloatAdd(c.confidence, 1000)
                           ELSE IF area > 200000 THEN FloatAdd(c.confidence, 500)
                           ELSE c.confidence)
                     ELSE c.confidence
        afterRatio == IF HasAspect(c) /\ NearPreferred(c, 1)
                      THEN FloatAdd(afterArea, 1000) ELSE afterArea
    IN  IF SourceBoost(c) THEN FloatAdd(afterRatio, 1000) ELSE afterRatio
calculateFinalConfidence(c) ==
    LET area == c.width * c.height
        afterArea == IF c.width # 0 /\ c.height # 0
                     THEN (IF area > 500000 THEN FloatAdd(c.confidence, 1000)
                           ELSE IF area > 200000 THEN FloatAdd(c.confidence, 500)
                           ELSE c.confidence)
                     ELSE c.confidence
        afterRatio == IF HasAspect(c) /\ NearPreferred(c, 1)
                      THEN FloatAdd(afterArea, 1000) ELSE afterArea
        total == IF SourceBoost(c) THEN FloatAdd(afterRatio, 1000) ELSE afterRatio
    IN  IF total > 10000 THEN 10000 ELSE total

\* candidates.sort((a, b) => b.confidence - a.confidence): a stable sort
RECURSIVE InsertByConfidenceLastWins(_, _)
InsertByConfidenceLastWins(sorted, c) ==
    IF sorted = <<>> THEN <<c>>
    ELSE IF Head(sorted).confidence > c.confidence
         THEN <<Head(sorted)>> \o InsertByConfidenceLastWins(Tail(sorted), c)
         ELSE <<c>> \o sorted
RECURSIVE InsertByConfidence(_, _)
InsertByConfidence(sorted, c) ==
    IF sorted = <<>> THEN <<c>>
    ELSE IF Head(sorted).confidence >= c.confidence
         THEN <<Head(sorted)>> \o InsertByConfidence(Tail(sorted), c)
         ELSE <<c>> \o sorted

RECURSIVE SortByConfidence(_)
SortByConfidence(cs) ==
    IF cs = <<>> THEN <<>>
    ELSE InsertByConfidence(SortByConfidence(SubSeq(cs, 1, Len(cs) - 1)), cs[Len(cs)])

NoCandidate == [source |-> "none"]

\* selectBestCandidate on the sorted list
selectFirstCandidate(cs) == IF cs = <<>> THEN NoCandidate ELSE cs[1]
selectBestCandidate(cs) == IF cs = <<>> THEN NoCandidate ELSE SortByConfidence(cs)[1]

\* detectVideoPresence: a video element or one of the player indicators
detectVideoPresenceElementOnly(v) == v \in {"element", "elementZero", "iframe"}
detectVideoPresence(v) == v # "none"

---------------------------------------------------------------------------
(* VideoThumbnailDetector.detectVideoThumbnail *)

NStrategies == 6

\* the strategies whose body is one un-guarded page.evaluate: an exception in
\* it leaves the strategy; extractIframeThumbnails catches its own
StrategyCanThrow(n) == n # 5

\* the result of the catch block of detectVideoThumbnail
DetectionFailedKeepsVideo == [hasVideo |-> TRUE, thumbnail |-> NoCandidate, candidates |-> <<>>]
DetectionFailed == [hasVideo |-> FALSE, thumbnail |-> NoCandidate, candidates |-> <<>>]

\* An exception thrown by a strategy: the six calls stand in one try block
\* together with validation and selection, none has a try/catch of its own,
\* so the exception leaves them all for the catch block.
StrategiesIsolated == FALSE

\* the call: const log = [], const candidates = []
DVT_Call ==
    /\ pc = "detect" /\ dpc = "idle"
    /\ \E v \in VideoKinds : video' = v
    /\ dpc' = "strategy"
    /\ k' = 1
    /\ candidates' = <<>>
    /\ phaseLog' = Append(phaseLog, "detect")
    /\ UNCHANGED <<now, pageVars, bannerVars, customVars, validCandidates, vi, det,
                   pc, opts, pageOpen, fatal, result,
                   styleTags, failed, els0,
                   captureLog>>
    /\ UNCHANGED <<scroll, serverVars, cropVars>>

\* strategy k: candidates.push(...(await this.extractX(page)))
DVT_Strategy ==
    /\ dpc = "strategy" /\ k <= NStrategies
    /\ \E thr \in BOOLEAN, out \in {<<>>} \cup StrategyYields(k, video) :
          /\ thr => StrategyCanThrow(k) /\ out = <<>>
          /\ ~thr => (connAlive \/ (~StrategyCanThrow(k) /\ out = <<>>))
          /\ ~thr => Len(candidates) + Len(out) <= MaxCandidates
          /\ IF thr
             THEN /\ failed' = failed \cup {"extraction"}
                  /\ IF StrategiesIsolated
                     THEN k' = k + 1 /\ UNCHANGED <<dpc, det>>
                     ELSE dpc' = "returned" /\ det' = DetectionFailed /\ UNCHANGED k
                  /\ UNCHANGED candidates
             ELSE /\ candidates' = candidates \o out
                  /\ k' = k + 1
                  /\ UNCHANGED <<dpc, det, failed>>
    /\ UNCHANGED <<now, pageVars, bannerVars, customVars, video, validCandidates, vi,
                   pc, opts, pageOpen, fatal, result, styleTags, phaseLog, els0,
                   captureLog>>
    /\ UNCHANGED <<scroll, serverVars, cropVars>>

\* puppeteer.launch({ ..., protocolTimeout: 120000 })
ProtocolTimeout == 1200

\* strategy 6 on a page whose oEmbed link names a host that accepts the
\* request and never answers: `await fetch(href)` carries no timeout or abort
\* signal, so the page.evaluate of extractOEmbedThumbnails stays pending
\* until the protocol timeout of the connection rejects it; that exception
\* is not the fetch's, so the try/catch inside the evaluate does not see it
DVT_OEmbedHangs ==
    /\ dpc = "strategy" /\ k = NStrategies
    /\ connAlive
    /\ now' = now + ProtocolTimeout
    /\ failed' = failed \cup {"extraction", "hung"}
    /\ IF StrategiesIsolated
       THEN k' = k + 1 /\ UNCHANGED <<dpc, det>>
       ELSE dpc' = "returned" /\ det' = DetectionFailed /\ UNCHANGED k
    /\ UNCHANGED <<pageVars, bannerVars, customVars, video, candidates,
                   validCandidates, vi, pc, opts, pageOpen, fatal, result, styleTags,
                   phaseLog, els0, captureLog>>
    /\ UNCHANGED <<scroll, serverVars, cropVars>>

\* validateAndScoreCandidates is entered: const validCandidates = []
DVT_StartValidation ==
    /\ dpc = "strategy" /\ k > NStrategies
    /\ dpc' = "validate"
    /\ validCandidates' = <<>>
    /\ vi' = 1
    /\ UNCHANGED <<now, pageVars, bannerVars, customVars, video, k, candidates, det,
                   orchVars>>
    /\ UNCHANGED <<scroll, serverVars, cropVars>>

\* validateAndScoreCandidates, one candidate: resolve the URL, measure the
\* image, isValidThumbnail, calculateFinalConfidence; an exception skips it
DVT_Validate ==
    /\ dpc = "validate" /\ vi <= Len(candidates)
    /\ \E exc \in Throws :
          IF exc
          THEN /\ failed' = failed \cup {"validation"}
               /\ UNCHANGED validCandidates
          ELSE LET c == Measured(candidates[vi])
               IN  /\ validCandidates' =
                         IF isValidThumbnail(c)
                         THEN Append(validCandidates,
                                     [c EXCEPT !.confidence = calculateFinalConfidence(c)])
                         ELSE validCandidates
                   /\ UNCHANGED failed
    /\ vi' = vi + 1
    /\ UNCHANGED <<now, pageVars, bannerVars, customVars, video, dpc, k, candidates,
                   det, pc, opts, pageOpen, fatal, result, styleTags, phaseLog, els0,
                   captureLog>>
    /\ UNCHANGED <<scroll, serverVars, cropVars>>

\* selectBestCandidate (the list is sorted in place), then
\* hasVideo = candidates.length > 0 || await detectVideoPresence(page)
DVT_Select ==
    /\ dpc = "validate" /\ vi > Len(candidates)
    /\ \E exc \in Throws :
          IF Len(candidates) = 0 /\ exc
          THEN /\ det' = DetectionFailed
               /\ failed' = failed \cup {"presence"}
          ELSE /\ det' = [hasVideo |-> Len(candidates) > 0 \/ detectVideoPresence(video),
                          thumbnail |-> selectBestCandidate(validCandidates),
                          candidates |-> SortByConfidence(validCandidates)]
               /\ UNCHANGED failed
    /\ dpc' = "returned"
    /\ UNCHANGED <<now, pageVars, bannerVars, customVars, video, k, candidates,
                   validCandidates, vi, pc, opts, pageOpen, fatal, result, styleTags,
                   phaseLog, els0,
                   captureLog>>
    /\ UNCHANGED <<scroll, serverVars, cropVars>>

---------------------------------------------------------------------------
(* VideoThumbnailDetector.detectVideoRegionAndCrop *)

\* the region found by the page.evaluate: the first video element's box,
\* else the first player container of video-like shape and size, else null
VideoRegion(v) ==
    CASE v = "element"     -> [found |-> TRUE,  width |-> 640, height |-> 360]
      [] v = "elementZero" -> [found |-> TRUE,  width |-> 0,   height |-> 0]
      [] v = "container"   -> [found |-> TRUE,  width |-> 800, height |-> 450]
      [] OTHER             -> [found |-> FALSE, width |-> 0,   height |-> 0]

\* TRUE iff a clipped capture is issued for the region
CropsRegionNever(v) == FALSE
CropsRegion(v) ==
    VideoRegion(v).found /\ VideoRegion(v).width > 0 /\ VideoRegion(v).height > 0

---------------------------------------------------------------------------
(* BrowserManager.takeIntelligentScreenshot *)

\* The two capture methods.  takeScreenshot is takeIntelligentScreenshot
\* statement by statement, without the detection block: set-up, banner
\* block, page.screenshot, the same catch and the same finally; it has no
\* detectVideoThumbnails option, which stands as FALSE in its options here.
Entries == {"takeIntelligentScreenshot", "takeScreenshot"}

Options ==
    { o \in [entry : Entries,
             handleBanners : BOOLEAN,
             injectBannerBlockingCSS : BOOLEAN,
             customBannerSelectors : { [j \in 1..n |-> j] : n \in 0..MaxCustom },
             detectVideoThumbnails : BOOLEAN] :
        o.entry = "takeScreenshot" => ~o.detectVideoThumbnails }

\* the defaults of the destructured options
DefaultOptions ==
    [entry |-> "takeIntelligentScreenshot",
     handleBanners |-> TRUE, injectBannerBlockingCSS |-> FALSE,
     customBannerSelectors |-> <<>>, detectVideoThumbnails |-> TRUE]

\* ScreenshotResult: image and thumbnailUrl say which of the two optional
\* fields is set; threw: the call ended in `throw`; via: the step that
\* produced the result.  NoResult: the call has not ended.
NoResult ==
    [image |-> FALSE, thumbnailUrl |-> FALSE, isVideoThumbnail |-> FALSE,
     threw |-> FALSE, via |-> "none"]

\* return { thumbnailUrl, isVideoThumbnail: true, videoDetectionResult }
UrlResultWithImage ==
    [image |-> TRUE, thumbnailUrl |-> TRUE, isVideoThumbnail |-> TRUE,
     threw |-> FALSE, via |-> "url"]
UrlResult ==
    [image |-> FALSE, thumbnailUrl |-> TRUE, isVideoThumbnail |-> TRUE,
     threw |-> FALSE, via |-> "url"]

\* return { image: finalImage, isVideoThumbnail, videoDetectionResult }
ImageResult(isVideo, step) ==
    [image |-> TRUE, thumbnailUrl |-> FALSE, isVideoThumbnail |-> isVideo,
     threw |-> FALSE, via |-> step]

\* throw new Error(...) from the outer catch
ThrownError ==
    [image |-> FALSE, thumbnailUrl |-> FALSE, isVideoThumbnail |-> FALSE,
     threw |-> TRUE, via |-> "none"]

\* `await` in front of BannerHandler.handleBanners(page, bannerTimeout)
HandleBannersNotAwaited == FALSE
HandleBannersAwaited == TRUE

\* videoDetectionResult.thumbnail is returned as a URL, without a fetch
shouldReturnUrlDirectlyNoConfidence(c) ==
    \/ c.source = "oEmbed"
    \/ c.source = "schema.org VideoObject"
    \/ c.urlParam
    \/ c.urlCdn
shouldReturnUrlDirectly(c) ==
    \/ c.source = "oEmbed"
    \/ c.source = "schema.org VideoObject"
    \/ c.urlParam
    \/ c.urlCdn
    \/ c.confidence >= 8000

\* Where an exception lands, by the place it is thrown at:
\*   the thumbnail fetch: the catch around it, which goes on to the crop;
\*   the crop: the catch of detectVideoRegionAndCrop, which returns null, so
\*     that the caller goes on to the regular capture;
\*   the regular capture of a fallback branch: the catch around detection,
\*     which takes the regular capture once more;
\*   anywhere else: the outer catch, which rethrows.
NoLocalCatch(site) == "catch"
CatchSiteSkipsCrop(site) ==
    CASE site = "fetch"           -> "regularFallback"
      [] site = "crop"            -> "regularFallback"
      [] site = "regularFallback" -> "regularDetectionError"
      [] OTHER                    -> "catch"
CatchSite(site) ==
    CASE site = "fetch"           -> "cropAfterFetch"
      [] site = "crop"            -> "regularFallback"
      [] site = "regularFallback" -> "regularDetectionError"
      [] OTHER                    -> "catch"

\* the call with its options
TIS_Call ==
    /\ pc = "idle"
    /\ \E o \in Options : opts' = o
    /\ pc' = "setup"
    /\ UNCHANGED <<now, pageVars, bannerVars, customVars, detVars, pageOpen, fatal,
                   result, styleTags, phaseLog, failed, els0,
                   captureLog>>
    /\ UNCHANGED <<scroll, serverVars, cropVars>>

\* getBrowser, newPage, setViewport, ..., goto, the 1000 ms wait.  A failure
\* before the page exists leaves page null; a failed navigation leaves it open.
LoadSettle == 10

TIS_Setup ==
    /\ pc = "setup"
    /\ \E outcome \in {"ok", "noPage", "navigationFailed"} :
          /\ outcome = "ok" => connAlive
          /\ pageOpen' = (outcome # "noPage")
          /\ IF outcome = "ok"
             THEN /\ pc' = "bannerGate"
                  /\ now' = now + LoadSettle
                  /\ UNCHANGED fatal
             ELSE /\ pc' = "catch"
                  /\ fatal' = TRUE
                  /\ UNCHANGED now
    /\ UNCHANGED <<pageVars, bannerVars, customVars, detVars, opts, result,
                   styleTags, phaseLog, failed, els0,
                   captureLog>>
    /\ UNCHANGED <<scroll, serverVars, cropVars>>

\* `if (handleBanners) {` around the injection, the banner loop and the
\* custom pass
BannersAlways == TRUE
BannersEnabled == opts.handleBanners

\* if (handleBanners) { if (injectBannerBlockingCSS) ...; handleBanners ... }
TIS_BannerGate ==
    /\ pc = "bannerGate"
    /\ pc' = IF BannersEnabled
             THEN (IF opts.injectBannerBlockingCSS THEN "inject" ELSE "handleBanners")
             ELSE "detectGate"
    /\ UNCHANGED <<now, pageVars, bannerVars, customVars, detVars, opts, pageOpen,
                   fatal, result, styleTags, phaseLog, failed, els0,
                   captureLog>>
    /\ UNCHANGED <<scroll, serverVars, cropVars>>

\* handleBanners has returned; if (customBannerSelectors.length > 0) the
\* custom pass is called
TIS_AfterBanners ==
    /\ pc = "handleBanners" /\ bpc # "idle"
    /\ HandleBannersAwaited => bpc = "returned"
    /\ IF Len(opts.customBannerSelectors) > 0
       THEN /\ pc' = "custom"
            /\ ci' = 1
            /\ phaseLog' = Append(phaseLog, "custom")
       ELSE /\ pc' = "detectGate"
            /\ UNCHANGED <<ci, phaseLog>>
    /\ UNCHANGED <<now, pageVars, bannerVars, customClicks, customSeen, detVars,
                   opts, pageOpen, fatal, result, styleTags, failed, els0,
                   captureLog>>
    /\ UNCHANGED <<scroll, serverVars, cropVars>>

\* if (detectVideoThumbnails) { try { detectVideoThumbnail ... } else regular
DetectionAlways == TRUE
DetectionEnabled == opts.detectVideoThumbnails

TIS_DetectGate ==
    /\ pc = "detectGate"
    /\ pc' = IF DetectionEnabled THEN "detect" ELSE "regularDisabled"
    /\ phaseLog' = IF DetectionEnabled THEN phaseLog
                   ELSE Append(phaseLog, "capture")
    /\ UNCHANGED <<now, pageVars, bannerVars, customVars, detVars, opts, pageOpen,
                   fatal, result, styleTags, failed, els0,
                   captureLog>>
    /\ UNCHANGED <<scroll, serverVars, cropVars>>

\* detectVideoThumbnail has returned: the branch on thumbnail / hasVideo
TIS_Decide ==
    /\ pc = "detect" /\ dpc = "returned"
    /\ IF det.thumbnail # NoCandidate
       THEN IF shouldReturnUrlDirectly(det.thumbnail)
            THEN /\ result' = UrlResult
                 /\ pc' = "finally"
            ELSE /\ pc' = "fetch"
                 /\ UNCHANGED result
       ELSE /\ pc' = IF det.hasVideo THEN "cropNoThumbnail" ELSE "regularFallback"
            /\ UNCHANGED result
    /\ phaseLog' = Append(phaseLog, "capture")
    /\ k' = 1 /\ vi' = 1 /\ candidates' = <<>> /\ validCandidates' = <<>>
    /\ UNCHANGED <<now, pageVars, bannerVars, customVars, video, dpc, det,
                   opts, pageOpen, fatal, styleTags, failed, els0,
                   captureLog>>
    /\ UNCHANGED <<scroll, serverVars, cropVars>>

\* page.evaluate(fetch(thumbnailUrl)): the bytes, or an error (HTTP status,
\* network, connection)
TIS_Fetch ==
    /\ pc = "fetch"
    /\ \E exc \in Throws :
          IF ~exc
          THEN /\ result' = ImageResult(TRUE, "fetch")
               /\ pc' = "finally"
          ELSE /\ pc' = CatchSite("fetch")
               /\ UNCHANGED result
    /\ failed' = IF pc' = "finally" THEN failed ELSE failed \cup {"fetch"}
    /\ captureLog' = Append(captureLog, "fetch")
    /\ UNCHANGED <<now, pageVars, bannerVars, customVars, detVars, opts, pageOpen,
                   fatal, styleTags, phaseLog, els0>>
    /\ UNCHANGED <<scroll, serverVars, cropVars>>

\* detectVideoRegionAndCrop: a clipped capture of the region, or null when
\* there is no region or an empty one; on null the regular capture follows
TIS_Crop ==
    /\ pc \in {"cropAfterFetch", "cropNoThumbnail"}
    /\ \E exc \in Throws :
          IF exc
          THEN /\ pc' = CatchSite("crop")
               /\ failed' = failed \cup {"crop"}
               /\ UNCHANGED result
          ELSE /\ IF CropsRegion(video)
                  THEN /\ result' = ImageResult(TRUE, "crop")
                       /\ pc' = "finally"
                  ELSE /\ pc' = "regularFallback"
                       /\ UNCHANGED result
               /\ UNCHANGED failed
    /\ captureLog' = Append(captureLog, "crop")
    /\ UNCHANGED <<now, pageVars, bannerVars, customVars, detVars, opts, pageOpen,
                   fatal, styleTags, phaseLog, els0>>
    /\ UNCHANGED <<scroll, serverVars, cropVars>>

\* `let isVideoThumbnail = false`: the flag as every branch that takes the
\* regular capture finds it, since the two assignments of true stand after a
\* fetch or a crop that succeeded and are followed by the return
FlagLeftSet == TRUE
FlagAtRegularCapture == FALSE

\* takeRegularScreenshot: page.screenshot, which throws when the connection
\* is lost
TIS_Regular ==
    /\ pc \in {"regularFallback", "regularDetectionError", "regularDisabled"}
    /\ IF connAlive
       THEN /\ result' = ImageResult(FlagAtRegularCapture, "regular")
            /\ pc' = "finally"
       ELSE /\ pc' = CatchSite(pc)
            /\ UNCHANGED result
    /\ captureLog' = Append(captureLog, "regular")
    /\ UNCHANGED <<now, pageVars, bannerVars, customVars, detVars, opts, pageOpen,
                   fatal, styleTags, phaseLog, failed, els0>>
    /\ UNCHANGED <<scroll, serverVars, cropVars>>

\* catch (error) { ...; throw new Error(...) }
TIS_Catch ==
    /\ pc = "catch"
    /\ result' = ThrownError
    /\ pc' = "finally"
    /\ UNCHANGED <<now, pageVars, bannerVars, customVars, detVars, opts, pageOpen,
                   fatal, styleTags, phaseLog, failed, els0,
                   captureLog>>
    /\ UNCHANGED <<scroll, serverVars, cropVars>>

\* page.close() stands in the finally block, so it runs after a return and
\* after a throw alike
CloseOnReturnOnly == FALSE
CloseInFinally == TRUE

\* finally { if (page) { try { await page.close() } catch { warn } } }
\* A close that throws finds the target or the connection gone, and the
\* page with it; the catch only warns.
TIS_Finally ==
    /\ pc = "finally"
    /\ IF pageOpen /\ (CloseInFinally \/ ~result.threw)
       THEN /\ pageOpen' = FALSE
            /\ \E exc \in Throws :
                  failed' = IF exc THEN failed \cup {"close"} ELSE failed
       ELSE UNCHANGED <<pageOpen, failed>>
    /\ pc' = "done"
    /\ UNCHANGED <<now, pageVars, bannerVars, customVars, detVars, opts, fatal,
                   result, styleTags, phaseLog, els0,
                   captureLog>>
    /\ UNCHANGED <<scroll, serverVars, cropVars>>

---------------------------------------------------------------------------
(* The server: validateApiKey in front of the screenshot routes, and the
   shared browser of BrowserManager (warmUp, getBrowser) *)

\* most screenshot requests in flight at once
MaxRequests == 2

\* the callers of getBrowser: the requests, and 0 for the call of warmUp
Requests == 1 .. MaxRequests
WarmUp == 0
Callers == {WarmUp} \cup Requests

\* the API keys that are told apart: none, the configured one, another one
Keys == {"", "secret", "wrong"}

\* process.env: REQUIRE_API_KEY set or not, API_KEY unset ("") or set
Envs == [requireKey : BOOLEAN, apiKey : {"", "secret"}]

\* a request that has not arrived, warmUp before it is called
NoRequest ==
    [rpc |-> "none", header |-> "", query |-> "", carried |-> "none", uses |-> 0]

\* what a request carries, by the configured key: no key, the valid key in
\* the header or the query parameter, or only other keys
Carried(header, query) ==
    CASE header = "" /\ query = "" -> "none"
      [] env.apiKey # "" /\ (header = env.apiKey \/ query = env.apiKey) -> "valid"
      [] OTHER -> "invalid"

\* a POST / or GET / of the screenshot router arrives with its header and
\* query parameter
SRV_Receive(c) ==
    /\ c \in Requests
    /\ reqs[c].rpc = "none"
    /\ \E h \in Keys, q \in Keys :
          reqs' = [reqs EXCEPT ![c] = [rpc |-> "received", header |-> h, query |-> q,
                                       carried |-> Carried(h, q), uses |-> 0]]
    /\ UNCHANGED <<env, browser, isInitializing, launches, connected>>
    /\ UNCHANGED <<captureVars, cropVars>>

\* const apiKey = req.headers['x-api-key'] || req.query.apiKey
ApiKeyOf(r) == IF r.header # "" THEN r.header ELSE r.query

\* the outcome of validateApiKey: next() or a 401 response
NoKeyNeeded == ~env.requireKey
validateApiKey(r) ==
    IF env.apiKey = "" /\ NoKeyNeeded THEN "next"
    ELSE IF ApiKeyOf(r) = "" THEN "401"
    ELSE IF env.apiKey # "" /\ ApiKeyOf(r) # env.apiKey THEN "401"
    ELSE "next"

\* the middleware runs on the request: a 401 response ends it, next() hands
\* it to the handler; the key is not read again after it
SRV_Auth(c) ==
    /\ c \in Requests
    /\ reqs[c].rpc = "received"
    /\ reqs' = [reqs EXCEPT ![c] =
                   IF validateApiKey(reqs[c]) = "next"
                   THEN [@ EXCEPT !.rpc = "getBrowser", !.header = "", !.query = ""]
                   ELSE [NoRequest EXCEPT !.rpc = "rejected"]]
    /\ UNCHANGED <<env, browser, isInitializing, launches, connected>>
    /\ UNCHANGED <<captureVars, cropVars>>

\* warmUp: if (this.browser || this.isInitializing) return;
\* this.isInitializing = true; then getBrowser
WU_Start ==
    /\ reqs[WarmUp].rpc = "none"
    /\ IF browser # 0 \/ isInitializing
       THEN reqs' = [reqs EXCEPT ![WarmUp].rpc = "done"] /\ UNCHANGED isInitializing
       ELSE reqs' = [reqs EXCEPT ![WarmUp].rpc = "getBrowser"] /\ isInitializing' = TRUE
    /\ UNCHANGED <<env, browser, launches, connected>>
    /\ UNCHANGED <<captureVars, cropVars>>

\* getBrowser, up to its await: if (!this.browser) puppeteer.launch(...) is
\* called, else this.browser is returned
GB_Check(c) ==
    /\ reqs[c].rpc = "getBrowser"
    /\ IF browser = 0
       THEN /\ launches' = launches + 1
            /\ reqs' = [reqs EXCEPT ![c].rpc = "launching", ![c].uses = launches + 1]
       ELSE /\ UNCHANGED launches
            /\ reqs' = [reqs EXCEPT ![c].rpc = "gotBrowser", ![c].uses = browser]
    /\ UNCHANGED <<env, browser, isInitializing, connected>>
    /\ UNCHANGED <<captureVars, cropVars>>

\* puppeteer.launch settles: this.browser = <the new instance> and the
\* 'disconnected' handler is registered; or the launch fails and getBrowser
\* throws
GB_Launched(c) ==
    /\ reqs[c].rpc = "launching"
    /\ \E ok \in BOOLEAN :
          IF ok
          THEN /\ browser' = reqs[c].uses
               /\ connected' = connected \cup {reqs[c].uses}
               /\ reqs' = [reqs EXCEPT ![c].rpc = "gotBrowser"]
          ELSE /\ UNCHANGED <<browser, connected>>
               /\ reqs' = [reqs EXCEPT ![c].rpc = "failed", ![c].uses = 0]
    /\ UNCHANGED <<env, isInitializing, launches>>
    /\ UNCHANGED <<captureVars, cropVars>>

\* getBrowser has returned or thrown.  warmUp: finally { this.isInitializing =
\* false }; a request: the capture is made with the browser it was given (or
\* the error is answered) and the response is sent
GB_Return(c) ==
    /\ reqs[c].rpc \in {"gotBrowser", "failed"}
    /\ reqs' = [reqs EXCEPT ![c] =
                   [NoRequest EXCEPT !.rpc = IF c = WarmUp THEN "done" ELSE "responded"]]
    /\ isInitializing' = IF c = WarmUp THEN FALSE ELSE isInitializing
    /\ UNCHANGED <<env, browser, launches, connected>>
    /\ UNCHANGED <<captureVars, cropVars>>

\* the capture of a request fails with 'Protocol error', 'Connection closed',
\* 'Target closed' or 'Session closed' (its browser disconnected, or its page
\* crashed or was closed under it): the outer catch of takeIntelligentScreenshot
\* / takeScreenshot sets this.browser = null and rethrows; the route answers
\* the error
SRV_CaptureError(c) ==
    /\ c \in Requests
    /\ reqs[c].rpc = "gotBrowser"
    /\ browser' = 0
    /\ reqs' = [reqs EXCEPT ![c] = [NoRequest EXCEPT !.rpc = "responded"]]
    /\ UNCHANGED <<env, isInitializing, launches, connected>>
    /\ UNCHANGED <<captureVars, cropVars>>

\* a browser instance disconnects: its handler sets this.browser = null
BrowserDisconnected ==
    /\ \E b \in connected :
          /\ connected' = connected \ {b}
          /\ browser' = 0
    /\ UNCHANGED <<env, reqs, isInitializing, launches>>
    /\ UNCHANGED <<captureVars, cropVars>>

\* no request yet, no browser yet, warmUp not yet called
ServerIdle ==
    /\ env = [requireKey |-> FALSE, apiKey |-> ""]
    /\ reqs = [c \in Callers |-> NoRequest]
    /\ browser = 0
    /\ isInitializing = FALSE
    /\ launches = 0
    /\ connected = {}

---------------------------------------------------------------------------
(* VideoThumbnailDetector.detectVideoRegionAndCrop, on the boxes of the page *)

\* the most elements of one kind on the pages that are enumerated
MaxBoxes == 2

\* getBoundingClientRect() of an element: width and height, in tenths of a pixel
Box(w, h) == [w |-> w, h |-> h]

\* the boxes a video element may have: 640x360, none (display: none), 0.4x0.4
VideoBoxes == { Box(6400, 3600), Box(0, 0), Box(4, 4) }

\* the boxes a container may have: 800x450 and 320x240 (video-like), and one
\* box on each limit: 300 wide, 200 high, ratio 1.3, ratio 2.5
ContainerBoxes == { Box(8000, 4500), Box(3200, 2400), Box(3000, 2200),
                    Box(4000, 2000), Box(3900, 3000), Box(7500, 3000) }

SeqsUpTo(S, n) == UNION { [1..m -> S] : m \in 0..n }

\* Math.round of a non-negative number given in tenths
Round(x) == (x + 5) \div 10

NoRegion == [found |-> FALSE, width |-> 0, height |-> 0]

\* { width: Math.round(rect.width), height: Math.round(rect.height) }
RegionOf(b) == [found |-> TRUE, width |-> Round(b.w), height |-> Round(b.h)]

\* aspectRatio > 1.3 && aspectRatio < 2.5 && rect.width > 300 && rect.height > 200,
\* with aspectRatio = rect.width / rect.height (NaN or Infinity for height 0)
VideoLikeInclusive(b) ==
    b.h > 0 /\ 10 * b.w >= 13 * b.h /\ 2 * b.w <= 5 * b.h /\ b.w >= 3000 /\ b.h >= 2000
VideoLike(b) ==
    b.h > 0 /\ 10 * b.w > 13 * b.h /\ 2 * b.w < 5 * b.h /\ b.w > 3000 /\ b.h > 2000

\* for (const container of containers) { if (...) return {...} } return null
RECURSIVE FirstVideoLike(_, _)
FirstVideoLike(cs, i) ==
    IF i > Len(cs) THEN NoRegion
    ELSE IF VideoLike(cs[i]) THEN RegionOf(cs[i])
    ELSE FirstVideoLike(cs, i + 1)

\* the page.evaluate: videos[0] when there is a video element, else the
\* container scan
FindRegion(vs, cs) ==
    IF Len(vs) > 0 THEN RegionOf(vs[1]) ELSE FirstVideoLike(cs, 1)

\* try { ... } catch (error) { return null } around the whole body
CropCatches == TRUE

\* what an exception inside the body makes of the call
CropThrew == IF CropCatches THEN "null" ELSE "threw"

\* const videoRegion = await page.evaluate(...)
DVRC_Evaluate ==
    /\ cpc = "called"
    /\ \E exc \in Throws :
          IF exc
          THEN /\ cpc' = "returned"
               /\ cropOut' = CropThrew
               /\ UNCHANGED region
          ELSE /\ cpc' = "check"
               /\ region' = FindRegion(vbox, cbox)
               /\ UNCHANGED cropOut
    /\ UNCHANGED <<vbox, cbox, cropShots>>
    /\ UNCHANGED <<captureVars, serverVars>>

\* if (videoRegion && videoRegion.width > 0 && videoRegion.height > 0)
\*   return Buffer.from(await page.screenshot({ type: 'png', clip: videoRegion }));
\* return null
DVRC_Capture ==
    /\ cpc = "check"
    /\ IF region.found /\ region.width > 0 /\ region.height > 0
       THEN /\ cropShots' = cropShots + 1
            /\ \E exc \in Throws :
                  cropOut' = IF exc THEN CropThrew ELSE "buffer"
       ELSE /\ cropOut' = "null"
            /\ UNCHANGED cropShots
    /\ cpc' = "returned"
    /\ UNCHANGED <<vbox, cbox, region>>
    /\ UNCHANGED <<captureVars, serverVars>>

\* no call of detectVideoRegionAndCrop under way
CropIdle ==
    /\ vbox = <<>> /\ cbox = <<>>
    /\ cpc = "idle"
    /\ region = NoRegion
    /\ cropShots = 0
    /\ cropOut = "none"

---------------------------------------------------------------------------
(* Specifications *)

\* the page as the orchestrator's runs meet it
OrchPages == { f \in BannerPages : f[<<1, 15>>] = "none" /\ f[<<9, 14>>] = "none"
                                   /\ f[<<1, 1>>] = "none"
                                   /\ f[<<2, 3>>] \in {"none", "vis", "hid"} }

CaptureIdle ==
    /\ now = 0
    /\ connAlive = TRUE
    /\ bpc = "idle"
    /\ startTime = 0 /\ maxTime = 0
    /\ attempts = 0 /\ bannersHandled = 0 /\ foundBanner = FALSE
    /\ pi = 1 /\ si = 1
    /\ raised = FALSE
    /\ appliedInPass = 0
    /\ applied = [p \in 1..NPatterns |-> 0]
    /\ lastAppEnd = 0
    /\ leftAt = -1
    /\ fatal = FALSE
    /\ result = NoResult
    /\ ci = 1
    /\ customClicks = [j \in 1..MaxCustom |-> 0]
    /\ styleTags = 0
    /\ video = "none"
    /\ dpc = "idle"
    /\ k = 1
    /\ candidates = <<>>
    /\ validCandidates = <<>>
    /\ vi = 1
    /\ det = DetectionFailed
    /\ failed = {}
    /\ captureLog = <<>>
    /\ customSeen = <<>>
    /\ phaseLog = <<>>

InitCommon ==
    /\ ServerIdle
    /\ CropIdle
    /\ scroll = "locked"
    /\ CaptureIdle

\* a capture request arrives
Init ==
    /\ InitCommon
    /\ els \in OrchPages
    /\ els0 = els
    /\ sticky = FALSE
    /\ opCost = 0
    /\ timeout = DefaultBannerTimeout
    /\ pc = "idle"
    /\ opts = DefaultOptions
    /\ pageOpen = FALSE

\* the orchestrator stands at its call of handleBanners, on any page
InitBanner ==
    /\ InitCommon
    /\ els \in BannerPages
    /\ els0 = els
    /\ sticky \in BOOLEAN
    /\ opCost \in 0..MaxOpCost
    /\ timeout \in Timeouts
    /\ pc = "handleBanners"
    /\ opts = DefaultOptions
    /\ pageOpen = TRUE

NextBanner ==
    \/ HB_Call
    \/ HB_InitialSettle
    \/ HB_LoopCheck
    \/ HB_ForCheck
    \/ HBP_Probe
    \/ HBP_Exhausted
    \/ HBP_Act
    \/ HB_Handled
    \/ HB_AfterPass
    \/ HB_FinalSettle

SpecBanner == InitBanner /\ [][NextBanner]_vars

\* detectVideoThumbnail has run its six strategies on a page with any video
\* content and holds any list of candidates they can have left; validation
\* is about to start
InitDetect ==
    /\ ServerIdle
    /\ CropIdle
    /\ scroll = "locked"
    /\ now = 0
    /\ connAlive = TRUE
    /\ els \in OrchPages /\ els[<<2, 3>>] = "none"
    /\ els0 = els
    /\ sticky = FALSE
    /\ opCost = 0
    /\ timeout = DefaultBannerTimeout
    /\ bpc = "returned"
    /\ startTime = 0 /\ maxTime = 0
    /\ attempts = 0 /\ bannersHandled = 0 /\ foundBanner = FALSE
    /\ pi = 1 /\ si = 1
    /\ raised = FALSE
    /\ appliedInPass = 0
    /\ applied = [p \in 1..NPatterns |-> 0]
    /\ lastAppEnd = 0
    /\ leftAt = -1
    /\ fatal = FALSE
    /\ result = NoResult
    /\ ci = 1
    /\ customClicks = [j \in 1..MaxCustom |-> 0]
    /\ customSeen = <<>>
    /\ styleTags = 0
    /\ failed = {}
    /\ captureLog = <<>>
    /\ phaseLog = <<"banners", "detect">>
    /\ pc = "detect"
    /\ opts = DefaultOptions
    /\ pageOpen = TRUE
    /\ video \in VideoKinds
    /\ candidates \in CandidateLists(video)
    /\ k = NStrategies + 1
    /\ dpc = "validate"
    /\ validCandidates = <<>>
    /\ vi = 1
    /\ det = DetectionFailed

NextDetect ==
    \/ ConnLost
    \/ DVT_Validate
    \/ DVT_Select
    \/ TIS_Decide
    \/ TIS_Fetch
    \/ TIS_Crop
    \/ TIS_Regular
    \/ TIS_Catch
    \/ TIS_Finally

SpecDetect == InitDetect /\ [][NextDetect]_vars

\* any page, with the body's scroll locked by a modal or not, before any
\* call of injectBannerBlockingCSS
InitInject ==
    /\ ServerIdle
    /\ CropIdle
    /\ now = 0
    /\ connAlive = TRUE
    /\ els \in BannerPages
    /\ els0 = els
    /\ scroll \in {"locked", "auto"}
    /\ sticky = FALSE
    /\ opCost = 0
    /\ timeout = DefaultBannerTimeout
    /\ bpc = "idle"
    /\ startTime = 0 /\ maxTime = 0
    /\ attempts = 0 /\ bannersHandled = 0 /\ foundBanner = FALSE
    /\ pi = 1 /\ si = 1
    /\ raised = FALSE
    /\ appliedInPass = 0
    /\ applied = [p \in 1..NPatterns |-> 0]
    /\ lastAppEnd = 0
    /\ leftAt = -1
    /\ fatal = FALSE
    /\ result = NoResult
    /\ ci = 1
    /\ customClicks = [j \in 1..MaxCustom |-> 0]
    /\ customSeen = <<>>
    /\ styleTags = 0
    /\ failed = {}
    /\ captureLog = <<>>
    /\ phaseLog = <<>>
    /\ pc = "injectOnly"
    /\ opts = DefaultOptions
    /\ pageOpen = TRUE
    /\ video = "none"
    /\ candidates = <<>>
    /\ k = 1
    /\ dpc = "idle"
    /\ validCandidates = <<>>
    /\ vi = 1
    /\ det = DetectionFailed

NextInject == IBC_Call

SpecInject == InitInject /\ [][NextInject]_vars

\* the server has started with its environment: no request has arrived, no
\* browser is launched, warmUp is about to be called
InitServer ==
    /\ CaptureIdle
    /\ CropIdle
    /\ scroll = "locked"
    /\ els = [slot \in Slots |-> "none"]
    /\ els0 = els
    /\ sticky = FALSE
    /\ opCost = 0
    /\ timeout = DefaultBannerTimeout
    /\ pc = "idle"
    /\ opts = DefaultOptions
    /\ pageOpen = FALSE
    /\ env \in Envs
    /\ reqs = [c \in Callers |-> NoRequest]
    /\ browser = 0
    /\ isInitializing = FALSE
    /\ launches = 0
    /\ connected = {}

NextServer ==
    \/ WU_Start
    \/ \E c \in Requests : SRV_Receive(c)
    \/ \E c \in Requests : SRV_Auth(c)
    \/ \E c \in Callers : GB_Check(c)
    \/ \E c \in Callers : GB_Launched(c)
    \/ \E c \in Callers : GB_Return(c)
    \/ \E c \in Requests : SRV_CaptureError(c)
    \/ BrowserDisconnected

SpecServer == InitServer /\ [][NextServer]_vars

\* detectVideoRegionAndCrop is called on a page with some video elements and
\* some containers
InitCrop ==
    /\ CaptureIdle
    /\ ServerIdle
    /\ scroll = "locked"
    /\ els = [slot \in Slots |-> "none"]
    /\ els0 = els
    /\ sticky = FALSE
    /\ opCost = 0
    /\ timeout = DefaultBannerTimeout
    /\ pc = "idle"
    /\ opts = DefaultOptions
    /\ pageOpen = FALSE
    /\ vbox \in SeqsUpTo(VideoBoxes, MaxBoxes)
    /\ cbox \in SeqsUpTo(ContainerBoxes, MaxBoxes)
    /\ cpc = "called"
    /\ region = NoRegion
    /\ cropShots = 0
    /\ cropOut = "none"

NextCrop ==
    \/ DVRC_Evaluate
    \/ DVRC_Capture

SpecCrop == InitCrop /\ [][NextCrop]_vars

Next ==
    \/ TIS_Call
    \/ TIS_Setup
    \/ TIS_BannerGate
    \/ IBC_Inject
    \/ NextBanner
    \/ ConnLost
    \/ TIS_AfterBanners
    \/ HCB_Step
    \/ HCB_Return
    \/ TIS_DetectGate
    \/ DVT_Call
    \/ DVT_Strategy
    \/ DVT_OEmbedHangs
    \/ DVT_StartValidation
    \/ DVT_Validate
    \/ DVT_Select
    \/ TIS_Decide
    \/ TIS_Fetch
    \/ TIS_Crop
    \/ TIS_Regular
    \/ TIS_Catch
    \/ TIS_Finally

Spec == Init /\ [][Next]_vars

---------------------------------------------------------------------------
(* Properties of takeIntelligentScreenshot *)

C2_StrategiesIndependent ==
    (pc = "detect" /\ dpc = "returned" /\ "extraction" \in failed) =>
        /\ k > NStrategies
        /\ (Len(candidates) > 0 => det.hasVideo)

---------------------------------------------------------------------------
(* Properties of handleBanners *)

\* the event loop runs the call of handleBanners on to its next step
FairSpecBanner == SpecBanner /\ WF_vars(NextBanner)

\* C3: a call of handleBanners never starts more than 5 passes, whatever the
\* page does, and it returns.
C3_AtMostFivePasses ==
    /\ [](attempts <= maxAttempts)
    /\ <>(bpc = "returned")

\* a banner that is visible again at every pass: the loop is left after five
\* passes, each with a dismissal, before the deadline
C3_Witness ==
    /\ bpc = "afterLoop" /\ sticky
    /\ attempts = maxAttempts /\ bannersHandled = maxAttempts
    /\ leftAt < maxTime

\* C4: in a pass at most one pattern is applied; once a pattern was handled
\* no selector is probed or acted on in that pass; a pass starts at the first
\* pattern of the catalog.
C4_OneActionPerPass ==
    [][ /\ appliedInPass' <= 1
        /\ (foundBanner => bpc' \notin {"probe", "act"})
        /\ (attempts' = attempts + 1 => pi' = 1) ]_vars

\* the second pass has applied the first pattern again and ended, while an
\* element of the last pattern is visible and was left alone
C4_Witness ==
    /\ bpc = "afterPass" /\ foundBanner
    /\ attempts = 2 /\ pi = 1 /\ appliedInPass = 1
    /\ els[<<9, 14>>] = "vis" /\ applied[9] = 0

\* C5: a pass starts only while the deadline has not passed.
C5_NoPassAfterDeadline ==
    [][attempts' = attempts + 1 => now < maxTime]_vars

\* a click that began before the deadline has completed after it
C5_Witness ==
    /\ bpc = "handled"
    /\ now > maxTime
    /\ now - (ClickSettle + 2 * opCost) < maxTime

\* the later of two times
Later(a, b) == IF a >= b THEN a ELSE b

\* C6: the loop is left no later than the deadline or, when a pattern
\* application was in flight at the deadline, the end of that application.
C6_BoundedOverrun ==
    bpc = "afterLoop" => leftAt <= Later(maxTime, lastAppEnd)

\* no selector of the catalog matches an element of the page
NoMatchingElement(page) == \A slot \in Slots : page[slot] = "none"

OneFirstPriorityElement(page) ==
    \E slot \in Slots :
        /\ slot[1] = 1
        /\ page[slot] = "vis"
        /\ \A other \in Slots \ {slot} : page[other] = "none"

---------------------------------------------------------------------------
(* Properties of the banner phase within the capture *)

PhaseRank(ph) ==
    CASE ph = "inject"  -> 1
      [] ph = "banners" -> 2
      [] ph = "custom"  -> 3
      [] ph = "detect"  -> 4
      [] ph = "capture" -> 5

\* C10: the banner loop runs only while the orchestrator waits in its call,
\* detection only while it waits in that call; the injection precedes the
\* banner loop, the custom pass follows it, detection follows both, and the
\* fetch, crop or plain capture comes last.
C10_PhasesSequential ==
    /\ (bpc \notin {"idle", "returned"} => pc = "handleBanners")
    /\ (dpc \notin {"idle", "returned"} => pc = "detect")
    /\ (pc = "inject" => bpc = "idle")
    /\ (pc = "custom" => bpc = "returned" /\ dpc = "idle")
    /\ (pc \in {"fetch", "cropAfterFetch", "cropNoThumbnail", "regularFallback",
                "regularDetectionError"} => dpc = "returned")
    /\ \A i, j \in 1..Len(phaseLog) :
          i < j => PhaseRank(phaseLog[i]) < PhaseRank(phaseLog[j])

\* a capture that went through all five phases
C10_Witness ==
    /\ pc = "done"
    /\ phaseLog = <<"inject", "banners", "custom", "detect", "capture">>

---------------------------------------------------------------------------
(* Properties of the result and of the fallback policy *)

\* C11: a call that does not throw returns either image bytes or a thumbnail
\* URL, never both and never neither, and a URL comes with
\* isVideoThumbnail = true.
C11_ExactlyOneVariant ==
    (pc = "done" /\ ~result.threw) =>
        /\ result.image # result.thumbnailUrl
        /\ (result.thumbnailUrl => result.isVideoThumbnail)

\* a call that returned a thumbnail URL
C11_Witness == pc = "done" /\ result = UrlResult

\* the first entry of the capture log is a fetch
FetchAttempted == Len(captureLog) > 0 /\ captureLog[1] = "fetch"

C13_FallbackOrder ==
    (pc = "done" /\ ~result.threw /\ det.thumbnail # NoCandidate
       /\ ~shouldReturnUrlDirectly(det.thumbnail)) =>
        \/ /\ captureLog = <<"fetch">>
           /\ "fetch" \notin failed
           /\ result = ImageResult(TRUE, "fetch")
        \/ /\ captureLog = <<"fetch", "crop">>
           /\ "fetch" \in failed
           /\ result = ImageResult(TRUE, "crop")
        \/ /\ captureLog = <<"fetch", "crop", "regular">>
           /\ "fetch" \in failed
           /\ result = ImageResult(FALSE, "regular")

\* the fetch failed, the crop gave nothing, the plain capture was returned
C13_Witness ==
    /\ pc = "done"
    /\ det.thumbnail # NoCandidate
    /\ captureLog = <<"fetch", "crop", "regular">>
    /\ result = ImageResult(FALSE, "regular")

\* the elements of a sequence
Range(seq) == {seq[i] : i \in DOMAIN seq}

\* the candidate extraction and the presence check both ran to their end
DetectionCompleted == failed \cap {"extraction", "presence"} = {}

C16_DisabledSkipsDetection ==
    (~opts.detectVideoThumbnails) =>
        /\ dpc = "idle"
        /\ "detect" \notin Range(phaseLog)
        /\ Range(captureLog) \subseteq {"regular"}
        /\ (pc = "done" /\ ~result.threw) =>
              (captureLog = <<"regular">> /\ result = ImageResult(FALSE, "regular"))

\* a call with detection disabled returned the plain capture
C16_Witness ==
    /\ pc = "done"
    /\ ~opts.detectVideoThumbnails
    /\ result = ImageResult(FALSE, "regular")

---------------------------------------------------------------------------
(* Properties of validation, scoring and selection *)

\* a dimension is known when it is not 0 (undefined, or an image that did
\* not load)
LargeEnough(c) ==
    /\ (c.width # 0 => c.width >= MIN_THUMBNAIL_WIDTH)
    /\ (c.height # 0 => c.height >= MIN_THUMBNAIL_HEIGHT)

\* C17: the validator never returns, and selection never picks, a candidate
\* whose known width is below 200 or whose known height is below 150.
C17_MinimumDimensions ==
    /\ \A i \in DOMAIN validCandidates : LargeEnough(validCandidates[i])
    /\ \A i \in DOMAIN det.candidates : LargeEnough(det.candidates[i])
    /\ det.thumbnail # NoCandidate => LargeEnough(det.thumbnail)

\* of two extracted candidates the one below the minimum was dropped and the
\* other one was selected
C17_Witness ==
    /\ pc = "detect" /\ dpc = "returned"
    /\ Len(candidates) = 2 /\ Len(validCandidates) = 1
    /\ "validation" \notin failed
    /\ \E i \in DOMAIN candidates :
          /\ Measured(candidates[i]).width \in 1 .. (MIN_THUMBNAIL_WIDTH - 1)
          /\ Measured(candidates[i]).height \in 1 .. (MIN_THUMBNAIL_HEIGHT - 1)
    /\ det.thumbnail # NoCandidate

\* C18: the final confidence of every validated candidate is at most 1.0 and
\* at least the base confidence its extractor gave it.
C18_ConfidenceBounds ==
    \A i \in DOMAIN validCandidates :
        /\ validCandidates[i].confidence <= 10000
        /\ validCandidates[i].confidence >= validCandidates[i].base

\* a candidate whose boosts sum to more than 1.0 was scored 1.0, next to one
\* that got no boost
C18_Witness ==
    /\ Len(validCandidates) = 2
    /\ \E i, j \in DOMAIN validCandidates :
          /\ validCandidates[i].base + 1000 + 1000 > 10000
          /\ validCandidates[i].width * validCandidates[i].height > 500000
          /\ validCandidates[i].confidence = 10000
          /\ validCandidates[j].confidence = validCandidates[j].base

\* C19: selectBestCandidate returns none on an empty validated list;
\* otherwise it returns a candidate of maximal final confidence, the first in
\* extraction order of those that share it.
C19_FirstOfTheBest ==
    (pc = "detect" /\ dpc = "returned" /\ "presence" \notin failed) =>
        IF validCandidates = <<>>
        THEN det.thumbnail = NoCandidate
        ELSE \E i \in DOMAIN validCandidates :
                /\ det.thumbnail = validCandidates[i]
                /\ \A j \in DOMAIN validCandidates :
                      /\ validCandidates[j].confidence <= validCandidates[i].confidence
                      /\ j < i => validCandidates[j].confidence < validCandidates[i].confidence

\* two different candidates share the top confidence and the one extracted
\* first was selected
C19_Witness ==
    /\ pc = "detect" /\ dpc = "returned"
    /\ Len(validCandidates) = 2
    /\ validCandidates[1].confidence = validCandidates[2].confidence
    /\ validCandidates[1] # validCandidates[2]
    /\ det.thumbnail = validCandidates[1]

---------------------------------------------------------------------------
(* Properties of the custom selectors' pass *)

\* handleCustomBanners takes the selectors in the given order, each one
\* once: the selectors before the current one were clicked once if their
\* element was present and visible and not at all otherwise, also after an
\* exception on an earlier one; the current and the later ones are untouched.
C20_EachSelectorOnce ==
    (pc = "custom") =>
        /\ Len(customSeen) = ci - 1
        /\ \A j \in DOMAIN customClicks :
              customClicks[j] = IF j < ci /\ customSeen[j] = "vis" THEN 1 ELSE 0

\* the pass moves from one selector to the next, never back, and ends
\* only after the last selector.
C20_InOrderToTheEnd ==
    [][(pc = "custom") =>
         /\ (pc' = "custom" => ci' \in {ci, ci + 1})
         /\ (pc' # "custom" => ci > Len(opts.customBannerSelectors))]_vars

\* C20: handleCustomBanners processes the selectors in the given order,
\* clicks the element of each at most once and only if it is present and
\* visible, never revisits a selector, and goes on to the later selectors
\* after a failure on one.
C20_CustomPass == []C20_EachSelectorOnce /\ C20_InOrderToTheEnd

\* the first selector failed and the second one was clicked
C20_Witness ==
    /\ pc = "custom"
    /\ Len(customSeen) = 2
    /\ customSeen[1] = "error" /\ customSeen[2] = "vis"
    /\ customClicks[1] = 0 /\ customClicks[2] = 1

---------------------------------------------------------------------------
(* Properties of injectBannerBlockingCSS *)

\* C22: injectBannerBlockingCSS is idempotent: a further call on a page that
\* already has the style sheet leaves the same elements hidden and the same
\* scroll state of the root.
C22_Idempotent ==
    [][(styleTags >= 1 /\ styleTags' = styleTags + 1) =>
          (els' = els /\ scroll' = scroll)]_vars

\* the sheet was added twice to a page with a visible banner container and a
\* locked body; the container is hidden and the body scrolls
C22_Witness ==
    /\ pc = "injectOnly"
    /\ styleTags = 2
    /\ els0[<<2, 3>>] = "vis" /\ els[<<2, 3>>] = "hid"
    /\ scroll = "auto"

---------------------------------------------------------------------------
(* Properties of the server *)

\* the callers that wait for a launch of their own
Launching == { c \in Callers : reqs[c].rpc = "launching" }

\* C24: whatever the interleaving of warmUp and the requests, no second
\* browser is launched while one is being launched or is connected: at any
\* time at most one browser is connected or under launch.
C24_OneBrowser == Cardinality(connected) + Cardinality(Launching) <= 1

\* C25: with REQUIRE_API_KEY set, a request goes past validateApiKey only if
\* it carries the valid API key in the X-API-Key header or the apiKey query
\* parameter; every other request is answered with 401.
C25_KeyRequired ==
    \A c \in Requests :
        (env.requireKey /\ reqs[c].rpc \in {"getBrowser", "launching", "gotBrowser", "failed"})
            => reqs[c].carried = "valid"

---------------------------------------------------------------------------
(* Properties of the detector's network calls *)

\* C21: a host that never answers the oEmbed request does not keep the other
\* strategies from contributing: when detectVideoThumbnail has returned after
\* such a request, all six strategies have run and the candidates of the
\* others have counted.
C21_HungHostIsolated ==
    (pc = "detect" /\ dpc = "returned" /\ "hung" \in failed) =>
        /\ k > NStrategies
        /\ (Len(candidates) > 0 => det.hasVideo)

---------------------------------------------------------------------------
(* Properties of the page's life *)

---------------------------------------------------------------------------
(* Properties of validation and scoring, continued *)

\* the image of the candidate was measured and did not load (or not within
\* 5 seconds): naturalWidth and naturalHeight are taken as 0
Unloaded(c) == c.width = 0 /\ c.height = 0

\* C26: a candidate without supplied dimensions whose image does not load
\* (measured 0x0) is rejected by validation: it is never among the validated
\* candidates and never the selected thumbnail.
C26_UnloadedRejected ==
    /\ \A i \in DOMAIN validCandidates : ~Unloaded(validCandidates[i])
    /\ \A i \in DOMAIN det.candidates : ~Unloaded(det.candidates[i])
    /\ det.thumbnail # NoCandidate => ~Unloaded(det.thumbnail)

\* the three bonuses of calculateFinalConfidence, in ten-thousandths
AreaBonus(c) ==
    IF c.width * c.height > 500000 THEN 1000
    ELSE IF c.width * c.height > 200000 THEN 500
    ELSE 0
AspectBonus(c) == IF HasAspect(c) /\ NearPreferred(c, 1) THEN 1000 ELSE 0
SourceBonus(c) == IF SourceBoost(c) THEN 1000 ELSE 0

Min(a, b) == IF a <= b THEN a ELSE b

\* C30: the final confidence of a validated candidate equals
\* min(1.0, base + area bonus + aspect bonus + source bonus).
C30_ConfidenceIsSum ==
    \A i \in DOMAIN validCandidates :
        LET c == validCandidates[i]
        IN  c.confidence = Min(10000, c.base + AreaBonus(c) + AspectBonus(c) + SourceBonus(c))

---------------------------------------------------------------------------
(* Properties of handleBannerPattern and of the end of handleBanners *)

\* C27: handleBannerPattern takes the selectors of the pattern in order; a
\* selector with no element, with a hidden element, or with an exception in
\* the probe or in the action is passed over for the next one; the first
\* action that succeeds ends the call with true and no later selector is
\* tried; the call ends with false exactly when the selectors are exhausted.
C27_SelectorsInOrder ==
    [][/\ (bpc = "probe" /\ bpc' = "probe") => (pi' = pi /\ si' = si + 1)
       /\ (bpc = "probe" /\ bpc' = "act") =>
             (pi' = pi /\ si' = si /\ IsVisible(pi, si) /\ ~raised')
       /\ (bpc = "act") => bpc' \in {"probe", "handled"}
       /\ (bpc = "act" /\ bpc' = "probe") => (pi' = pi /\ si' = si + 1 /\ raised')
       /\ (bpc = "act" /\ bpc' = "handled") => (pi' = pi /\ si' = si /\ ~raised')
       /\ (bpc = "handled") => bpc' \notin {"probe", "act"}
       /\ (bpc = "probe" /\ bpc' = "forCheck") => si > Pattern.nsel
       /\ (bpc = "probe" /\ si > Pattern.nsel) => (bpc' = "forCheck" /\ pi' = pi + 1)
      ]_vars

\* the first selector of the first pattern matched a hidden element, a later
\* selector threw, and the action on the fifteenth selector succeeded
C27_Witness ==
    /\ bpc = "handled" /\ pi = 1 /\ si = 15
    /\ attempts = 1
    /\ els0[<<1, 1>>] = "hid"
    /\ "banner" \in failed

\* C28: no click (or remove) is issued on an element whose visibility check
\* is false, neither by handleBannerPattern nor by handleCustomBanners.
C28_OnlyVisibleClicked ==
    [][/\ (\E p \in DOMAIN applied : applied'[p] > applied[p]) =>
             (bpc = "act" /\ FirstMatch(pi, si) = "visible")
       /\ (\E j \in DOMAIN customClicks : customClicks'[j] > customClicks[j]) =>
             (customSeen'[Len(customSeen')] = "vis")
      ]_vars

\* the catalog met a hidden element and clicked nothing, and the custom pass
\* met a hidden element, left it alone, and clicked a visible one
C28_Witness ==
    /\ pc = "custom"
    /\ els0[<<2, 3>>] = "hid" /\ els = els0
    /\ customSeen = <<"hid", "vis">>
    /\ customClicks[1] = 0 /\ customClicks[2] = 1

\* C29: however the loop of handleBanners ended, the call returns through one
\* final wait of 500 ms that starts when the loop is left.
C29_OneFinalSettle ==
    [][/\ (bpc # "returned" /\ bpc' = "returned") =>
             (bpc = "afterLoop" /\ now' = now + FinalSettle)
       /\ (bpc = "afterLoop") => (leftAt = now /\ bpc' = "returned")
       /\ (bpc \in {"loopCheck", "afterPass"} /\ bpc' \notin {"loopCheck", "forCheck"}) =>
             bpc' = "afterLoop"
      ]_vars

\* a pass had an exception, the loop was left after the deadline, and the
\* call returned
C29_Witness ==
    /\ bpc = "returned"
    /\ "banner" \in failed
    /\ now > timeout + FinalSettle

---------------------------------------------------------------------------
(* The order of the catalog *)

\* the place of a family of patterns in the priority order
GroupRank(kind) ==
    CASE kind = "age"     -> 1
      [] kind = "cookie"  -> 2
      [] kind = "generic" -> 3

\* C31: a pass goes through the catalog in one fixed order, one entry after
\* the other, and on that way never comes from a pattern of a later family to
\* a pattern of an earlier one (age verification, then cookie consent, then
\* modal / GDPR / newsletter).
C31_FamiliesInPriorityOrder ==
    [][(bpc \in {"probe", "act"} /\ pi' # pi /\ pi' <= NPatterns /\ bpc' # "returned") =>
          /\ pi' = pi + 1
          /\ GroupRank(COMMON_BANNER_PATTERNS[pi'].kind) >= GroupRank(Pattern.kind)
      ]_vars

---------------------------------------------------------------------------
(* detectVideoRegionAndCrop *)

\* a container of video-like shape and size: aspect ratio strictly between
\* 1.3 and 2.5, wider than 300 and taller than 200 pixels
Qualifies(b) ==
    /\ 10 * b.w > 13 * b.h /\ 2 * b.w < 5 * b.h
    /\ b.w > 3000 /\ b.h > 2000

\* the region of positive width and height that a capture may be clipped to
Positive(r) == r.found /\ r.width > 0 /\ r.height > 0

\* C32: detectVideoRegionAndCrop takes the box of the first video element
\* when there is one; only when there is none, the first container in
\* document order that is of video-like shape and size; it issues one clipped
\* capture exactly for a found region of positive width and height, else
\* issues none and returns null; and it never throws.
C32_RegionAndCrop ==
    /\ cropOut # "threw"
    /\ cropShots <= 1
    /\ (cpc = "check" \/ cropShots = 1) =>
          /\ Len(vbox) > 0 => region = RegionOf(vbox[1])
          /\ Len(vbox) = 0 =>
                /\ (\A i \in 1..Len(cbox) : ~Qualifies(cbox[i])) => region = NoRegion
                /\ \A i \in 1..Len(cbox) :
                      (Qualifies(cbox[i]) /\ \A j \in 1..(i - 1) : ~Qualifies(cbox[j])) =>
                          region = RegionOf(cbox[i])
    /\ cpc = "returned" =>
          /\ cropShots = 1 <=> Positive(region)
          /\ cropShots = 0 => cropOut = "null"
          /\ cropOut \in {"null", "buffer"}

\* no video element, a first container of ratio exactly 1.3 passed over, the
\* second one (320x240) captured
C32_Witness ==
    /\ cpc = "returned"
    /\ vbox = <<>>
    /\ cbox = <<Box(3900, 3000), Box(3200, 2400)>>
    /\ region = [found |-> TRUE, width |-> 320, height |-> 240]
    /\ cropShots = 1
    /\ cropOut = "buffer"

---------------------------------------------------------------------------
(* handleBannerPattern and the elements behind the first match *)

\* the page holds a visible element that selector s of pattern p matches
HasVisibleMatch(p, s) == <<p, s>> \in Slots /\ els[<<p, s>>] \in {"vis", "hidvis"}

\* C33: when no page operation fails, handleBannerPattern returns false only
\* for a pattern none of whose selectors matches a visible element, whatever
\* hidden elements the selectors match besides.
C33_VisibleMatchHandled ==
    [][(bpc = "probe" /\ bpc' = "forCheck" /\ "banner" \notin failed) =>
          \A s \in 1..Pattern.nsel : ~HasVisibleMatch(pi, s)
      ]_vars

---------------------------------------------------------------------------
(* isVideoThumbnail *)

---------------------------------------------------------------------------
(* The VideoDetectionResult *)

\* C35: in every result detectVideoThumbnail returns, there is a thumbnail
\* exactly when the list of candidates is not empty, and the thumbnail is
\* then one of the candidates of the list, none of which has a higher
\* confidence.
C35_ThumbnailIsTheBestOfTheList ==
    (pc = "detect" /\ dpc = "returned") =>
        /\ det.thumbnail # NoCandidate <=> det.candidates # <<>>
        /\ det.thumbnail # NoCandidate =>
              /\ \E i \in DOMAIN det.candidates : det.candidates[i] = det.thumbnail
              /\ \A j \in DOMAIN det.candidates :
                    det.candidates[j].confidence <= det.thumbnail.confidence

\* the candidate validated second has the higher confidence and was selected
C35_Witness ==
    /\ pc = "detect" /\ dpc = "returned"
    /\ Len(validCandidates) = 2
    /\ validCandidates[1].confidence < validCandidates[2].confidence
    /\ det.thumbnail = validCandidates[2]
    /\ Len(det.candidates) = 2

---------------------------------------------------------------------------
(* An exception in the detection pipeline *)

\* an exception reached the try block of detectVideoThumbnail: from a
\* strategy, or from detectVideoPresence
PipelineThrew == failed \cap {"extraction", "presence"} # {}

\* the result of a detection that found nothing at all
NothingDetected ==
    /\ det.hasVideo = FALSE
    /\ det.thumbnail = NoCandidate
    /\ det.candidates = <<>>

---------------------------------------------------------------------------
(* handleBanners = false *)

\* C37: in a capture called with handleBanners = false no banner code runs,
\* whatever injectBannerBlockingCSS and customBannerSelectors say: no style
\* tag is added, handleBanners is not called, no custom selector is looked up
\* or clicked, and the page's elements and scrolling stay as they were.
C37_NoBannerWorkWhenDisabled ==
    (pc # "idle" /\ ~opts.handleBanners) =>
        /\ pc \notin {"inject", "handleBanners", "custom"}
        /\ styleTags = 0 /\ scroll = "locked"
        /\ bpc = "idle"
        /\ \A p \in DOMAIN applied : applied[p] = 0
        /\ customSeen = <<>>
        /\ \A j \in DOMAIN customClicks : customClicks[j] = 0
        /\ els = els0
        /\ \A i \in DOMAIN phaseLog : phaseLog[i] \notin {"banners", "custom"}
        /\ "banner" \notin failed

\* a capture with handleBanners = false, injectBannerBlockingCSS = true and
\* custom selectors, on a page with a visible banner, has returned an image
C37_Witness ==
    /\ pc = "done"
    /\ ~opts.handleBanners
    /\ opts.injectBannerBlockingCSS
    /\ Len(opts.customBannerSelectors) > 0
    /\ els[<<2, 3>>] = "vis"
    /\ result.image

---------------------------------------------------------------------------
(* this.browser = null *)

\* request c has just failed with a connection-lost error
ErredNow(c) == reqs[c].rpc = "gotBrowser" /\ reqs'[c].rpc = "responded" /\ browser' = 0

\* C38: this.browser is set to null only on behalf of the browser it refers
\* to: because that browser has disconnected, or because a request that was
\* using that browser failed with a connection-lost error; never by the
\* 'disconnected' event of another browser or by the error of a request that
\* was using another one, while the browser referred to is connected.
C38_ClearedOnlyForCurrent ==
    [][(browser # 0 /\ browser' = 0) =>
          \/ browser \notin connected'
          \/ \E c \in Requests : ErredNow(c) /\ reqs[c].uses = browser
      ]_vars

====
